---- MODULE Spec2Model ----
(***************************************************************************)
(* Overfitting and regularization, from scratch                            *)
(* (P02-C05-regularization-scratch.ipynb).                                 *)
(*                                                                         *)
(* The notebook is one straight-line script: it builds two shuffled batch  *)
(* iterators over a prefix of MNIST, allocates W and b, trains a softmax   *)
(* classifier by plain SGD (the unregularized run), re-initialises the     *)
(* parameters in place and trains again with an L2 penalty in the loss.    *)
(*                                                                         *)
(* Numbers.  Every float of the program (NDArray elements, Python floats)  *)
(* is a fixed-point integer with FIX units to 1.0, every operation rounds  *)
(* to that grid, and three values outside the grid stand for NaN, +Inf and *)
(* -Inf with the IEEE rules (0 * Inf = NaN, Inf - Inf = NaN, log 0 = -Inf, *)
(* NaN absorbs).  exp and log are tabulated and interpolated.              *)
(*                                                                         *)
(* Sizes.  784 pixels, 10 classes, 1000 examples, batches of 64 and 1000   *)
(* epochs are scaled down; the structure (a last batch that does not fill, *)
(* several epochs, two runs) is kept.                                      *)
(***************************************************************************)
EXTENDS Integers, Sequences, FiniteSets, TLC

(***************************************************************************)
(* Sizes                                                                   *)
(***************************************************************************)

\* num_examples = 1000: the prefix of each MNIST partition that is used.
num_examples == 3

\* batch_size = 64.
batch_size == 2

\* epochs = 1000, in both training cells.
epochs == 2

\* The 10 of shape=(784,10), shape=10 and one_hot(label, 10).
NumClasses == 2

(***************************************************************************)
(* Floats                                                                  *)
(***************************************************************************)

\* Units to 1.0.
FIX == 2 ^ 10

NaN == 2 ^ 30
PInf == 2 ^ 30 + 1
NInf == 2 ^ 30 + 2

\* A Python name that is not bound yet.
Unbound == 2 ^ 30 + 3

IsNaN(x) == x = NaN
IsInf(x) == x = PInf \/ x = NInf
IsFinite(x) == ~IsNaN(x) /\ ~IsInf(x)

\* n / d rounded to the nearest integer, halves up (d > 0).
Round(n, d) == (2 * n + d) \div (2 * d)

FNeg(x) ==
    IF IsNaN(x) THEN NaN
    ELSE IF x = PInf THEN NInf
    ELSE IF x = NInf THEN PInf
    ELSE 0 - x

FAdd(x, y) ==
    IF IsNaN(x) \/ IsNaN(y) THEN NaN
    ELSE IF IsInf(x) /\ IsInf(y) THEN (IF x = y THEN x ELSE NaN)
    ELSE IF IsInf(x) THEN x
    ELSE IF IsInf(y) THEN y
    ELSE x + y

FSub(x, y) == FAdd(x, FNeg(y))

Sign(x) == IF x = PInf THEN 1 ELSE IF x = NInf THEN -1
           ELSE IF x > 0 THEN 1 ELSE IF x < 0 THEN -1 ELSE 0

FMul(x, y) ==
    IF IsNaN(x) \/ IsNaN(y) THEN NaN
    ELSE IF IsInf(x) \/ IsInf(y)
         THEN (IF Sign(x) * Sign(y) = 0 THEN NaN
               ELSE IF Sign(x) * Sign(y) > 0 THEN PInf ELSE NInf)
    ELSE Round(x * y, FIX)

\* x times the Python constant num/den (.001, .99, .01, .1), den > 0, num >= 0.
FScale(x, num, den) ==
    IF IsNaN(x) THEN NaN
    ELSE IF IsInf(x) THEN (IF num = 0 THEN NaN ELSE x)
    ELSE Round(x * num, den)

FDiv(x, y) ==
    IF IsNaN(x) \/ IsNaN(y) THEN NaN
    ELSE IF IsInf(x) /\ IsInf(y) THEN NaN
    ELSE IF IsInf(x) THEN (IF Sign(x) * Sign(y) >= 0 THEN PInf ELSE NInf)
    ELSE IF IsInf(y) THEN 0
    ELSE IF y = 0 THEN (IF x = 0 THEN NaN ELSE IF x > 0 THEN PInf ELSE NInf)
    ELSE IF y > 0 THEN Round(x * FIX, y)
    ELSE Round((0 - x) * FIX, 0 - y)

\* FIX * e^(-k) for k = 0, 1, 2, ...: below the grid from k = 8 on.
ExpTable == <<1024, 377, 139, 51, 19, 7, 3, 1, 0>>

ExpAt(k) == IF k + 1 > Len(ExpTable) THEN 0 ELSE ExpTable[k + 1]

\* e^x for x <= 0, interpolated between the table's entries.
FExp(x) ==
    IF IsNaN(x) THEN NaN
    ELSE IF x = NInf THEN 0
    ELSE LET g == 0 - x
             k == g \div FIX
             r == g % FIX
         IN  ExpAt(k) - ((ExpAt(k) - ExpAt(k + 1)) * r) \div FIX

\* FIX * ln 2.
Ln2 == 710

RECURSIVE LogPos(_)
\* ln of p / FIX for p > 0: p is brought into (FIX/2, FIX] by doubling or
\* halving, and ln is interpolated on that interval.
LogPos(p) ==
    IF p > FIX THEN Ln2 + LogPos(p \div 2)
    ELSE IF 2 * p <= FIX THEN LogPos(2 * p) - Ln2
    ELSE 0 - ((FIX - p) * Ln2 * 2) \div FIX

FLog(x) ==
    IF IsNaN(x) \/ x = NInf THEN NaN
    ELSE IF x = PInf THEN PInf
    ELSE IF x < 0 THEN NaN
    ELSE IF x = 0 THEN NInf
    ELSE LogPos(x)

\* The sequence s with its elements computed.
Seq1(s) == s \o <<>>

RECURSIVE FSum(_)
\* nd.sum over a vector, left to right.
FSum(s) ==
    IF Len(s) = 0 THEN 0
    ELSE FAdd(FSum(SubSeq(s, 1, Len(s) - 1)), s[Len(s)])

(***************************************************************************)
(* NDArrays                                                                *)
(***************************************************************************)

\* An NDArray: its shape and its elements in row-major order.
Size(shape) == IF Len(shape) = 1 THEN shape[1] ELSE shape[1] * shape[2]

NDArray(shape, data) == [shape |-> shape, data |-> data]

\* nd.zeros(shape); attach_grad allocates the gradient buffer like this.
Zeros(shape) == NDArray(shape, [k \in 1..Size(shape) |-> 0])

\* The names W and b, and the list params = [W, b]: the list holds the two
\* arrays themselves, so an in-place write through params is seen through W
\* and b.
W == "W"
b == "b"
params == <<W, b>>

(***************************************************************************)
(* mnist = mx.test_utils.get_mnist(): images of NumInputs pixels in [0,1]  *)
(* and integer labels.                                                     *)
(***************************************************************************)
mnist ==
    [train_data  |-> << <<1024, 0>>, <<0, 1024>>, <<1024, 512>>, <<0, 0>>, <<512, 1024>> >>,
     train_label |-> << 1, 0, 1, 0, 0 >>,
     test_data   |-> << <<1024, 0>>, <<0, 1024>>, <<512, 512>>, <<1024, 1024>>, <<0, 512>> >>,
     test_label  |-> << 1, 1, 0, 1, 0 >>]

\* The 784 of reshape((-1,784)) and shape=(784,10): the pixels of an image.
NumInputs == Len(mnist.train_data[1])

\* x[:n]
Prefix(s, n) == SubSeq(s, 1, IF n < Len(s) THEN n ELSE Len(s))

(***************************************************************************)
(* mx.io.NDArrayIter(data, label, batch_size, shuffle=True), with the      *)
(* default last_batch_handle='pad'.                                        *)
(***************************************************************************)

\* The orders np.random.shuffle can leave n indices in.
Shuffles(n) ==
    {p \in [1..n -> 1..n] : \A u, v \in 1..n : u # v => p[u] # p[v]}

\* The iterator as constructed: data and label reordered by the shuffled
\* index, the cursor one batch before the start.
NDArrayIter(data, label, idx) ==
    [data   |-> [k \in 1..Len(idx) |-> data[idx[k]]],
     label  |-> [k \in 1..Len(idx) |-> label[idx[k]]],
     cursor |-> 0 - batch_size]

num_data(it) == Len(it.data)

\* reset(): back to one batch before the start ('pad' does not roll over).
Reset(it) == [it EXCEPT !.cursor = 0 - batch_size]

\* iter_next(): the cursor moves on one batch, also when nothing is left.
Advance(it) == [it EXCEPT !.cursor = @ + batch_size]

HasBatch(it) == it.cursor < num_data(it)

\* getpad(): how many rows of the batch at the cursor are wrapped around.
GetPad(it) ==
    IF it.cursor + batch_size > num_data(it)
    THEN it.cursor + batch_size - num_data(it)
    ELSE 0

\* The positions of the (shuffled) partition that make up the batch at the
\* cursor: a full slice, or the tail followed by the first pad positions.
BatchRows(it) ==
    IF it.cursor + batch_size <= num_data(it)
    THEN [k \in 1..batch_size |-> it.cursor + k]
    ELSE [k \in 1..(num_data(it) - it.cursor) |-> it.cursor + k]
         \o Prefix([k \in 1..num_data(it) |-> k], GetPad(it))

\* next(): the DataBatch at the cursor.
GetBatch(it) ==
    LET rows == BatchRows(it)
    IN  [data  |-> Seq1([k \in 1..Len(rows) |-> it.data[rows[k]]]),
         label |-> Seq1([k \in 1..Len(rows) |-> it.label[rows[k]]]),
         pad   |-> GetPad(it)]

(***************************************************************************)
(* The model                                                               *)
(***************************************************************************)

\* Element (d, j) of the weight matrix, 1-based.
Weight(nd, d, j) == nd[W].data[(d - 1) * NumClasses + j]

\* One row of nd.dot(X, W) + b.
Linear(x, nd) ==
    Seq1([j \in 1..NumClasses |->
        FAdd(FSum([d \in 1..NumInputs |-> FMul(x[d], Weight(nd, d, j))]),
             nd[b].data[j])])

RECURSIVE MaxOf(_)
MaxOf(s) ==
    IF Len(s) = 1 THEN s[1]
    ELSE LET m == MaxOf(SubSeq(s, 1, Len(s) - 1))
         IN  IF s[Len(s)] > m THEN s[Len(s)] ELSE m

\* nd.softmax along the class axis of one row: the row's maximum is taken
\* off before exp.  A NaN (or infinite) logit makes the whole row NaN.
Normalize(ex, s) == Seq1([j \in 1..Len(ex) |-> FDiv(ex[j], s)])

ExpShifted(z, m) == Seq1([j \in 1..Len(z) |-> FExp(z[j] - m)])

NormalizeSum(ex) == Normalize(ex, FSum(ex))

Softmax(z) ==
    IF \E j \in 1..Len(z) : ~IsFinite(z[j])
    THEN [j \in 1..Len(z) |-> NaN]
    ELSE NormalizeSum(ExpShifted(z, MaxOf(z)))

\* net(X): reads the arrays W and b as they are when it is called.
net(X, nd) == Seq1([k \in 1..Len(X) |-> Softmax(Linear(X[k], nd))])

\* nd.one_hot(label, 10)
one_hot(label) ==
    Seq1([k \in 1..Len(label) |->
        Seq1([j \in 1..NumClasses |-> IF j - 1 = label[k] THEN FIX ELSE 0])])

\* cross_entropy(yhat, y): - nd.sum(y * nd.log(yhat), axis=0, exclude=True),
\* one loss per row.
cross_entropy(yhat, y) ==
    Seq1([k \in 1..Len(yhat) |->
        FNeg(FSum([j \in 1..NumClasses |-> FMul(y[k][j], FLog(yhat[k][j]))]))])

RECURSIVE ArgmaxFrom(_, _, _)
ArgmaxFrom(row, j, best) ==
    IF j > Len(row) THEN best
    ELSE ArgmaxFrom(row, j + 1, IF row[j] > row[best] THEN j ELSE best)

\* nd.argmax along the class axis of one row, 0-based: the first of the
\* largest entries.  On a NaN row the answer is the build's, nanIdx.
Argmax(row, nanIdx) ==
    IF \E j \in 1..Len(row) : IsNaN(row[j]) THEN nanIdx
    ELSE ArgmaxFrom(row, 2, 1) - 1

(***************************************************************************)
(* Loss, gradients, optimizer                                              *)
(***************************************************************************)

\* The learning rate .001 of SGD(params, .001), and l2_strength = .1, as
\* numerator and denominator.
lr == <<1, 1000>>
l2_strength == <<1, 10>>

\* param ** 2, kept exact: in units of 1/FIX^2.  (A float keeps the square
\* of a small number; rounding it to the grid would lose it.)
Square(x) ==
    IF IsNaN(x) THEN NaN ELSE IF IsInf(x) THEN PInf ELSE x * x

RECURSIVE PenaltyLoop(_, _, _)
PenaltyLoop(ps, nd, penalty) ==
    IF ps = <<>> THEN penalty
    ELSE PenaltyLoop(Tail(ps), nd,
            FAdd(penalty,
                 FSum([k \in 1..Len(nd[Head(ps)].data) |->
                          Square(nd[Head(ps)].data[k])])))

\* l2_penalty over the weights alone, the biases left out.
l2_penalty_weights(ps, nd) == PenaltyLoop(<<W>>, nd, 0)

\* l2_penalty(params): penalty = nd.zeros(shape=1), then for every param of
\* the list penalty = penalty + nd.sum(param ** 2).  In units of 1/FIX^2.
l2_penalty(ps, nd) == PenaltyLoop(ps, nd, 0)

\* A value in units of 1/FIX^2 brought to the grid.
ToFix(x) == IF IsFinite(x) THEN Round(x, FIX) ELSE x

\* The loss of the unregularized cell: the vector of per-row losses.
Loss1(output, label_one_hot) == cross_entropy(output, label_one_hot)

\* The loss of the regularized cell, an array of one element:
\* nd.sum(cross_entropy(output, label_one_hot))
\*     + l2_strength * l2_penalty(params).
Loss2(output, label_one_hot, nd) ==
    << FAdd(FSum(cross_entropy(output, label_one_hot)),
            FScale(ToFix(l2_penalty(params, nd)),
                   l2_strength[1], l2_strength[2])) >>

\* nd.mean(loss).asscalar()
Mean(loss) == FDiv(FSum(loss), Len(loss) * FIX)

\* loss.backward() as far as the logits of one row, by the chain rule the
\* recorded graph runs: through y * log(yhat) to yhat, -y * (1 / yhat), then
\* through softmax, yhat * (g - sum(g * yhat)).  With every yhat[j] > 0 this
\* is yhat - y up to rounding; a yhat[j] = 0 gives 0 * Inf and a NaN row.
SoftmaxBackward(yhat, g, s) ==
    Seq1([j \in 1..Len(yhat) |-> FMul(yhat[j], FSub(g[j], s))])

LogBackward(yhat, g) ==
    SoftmaxBackward(yhat, g, FSum([j \in 1..Len(yhat) |-> FMul(g[j], yhat[j])]))

LogitGrad(yhat, y) ==
    LogBackward(yhat,
        Seq1([j \in 1..Len(yhat) |-> FNeg(FMul(y[j], FDiv(FIX, yhat[j])))]))

\* What the penalty term adds to the gradient of one element:
\* l2_strength * 2 * w in the regularized cell, nothing in the other.
PenaltyGrad(w, reg) ==
    IF reg THEN FScale(w, 2 * l2_strength[1], l2_strength[2]) ELSE 0

\* loss.backward(): fills the gradient buffers of W and b with the gradient
\* of the summed loss at the values nd holds, for the batch X with one-hot
\* labels y.
ParamGrads(X, dz, nd, reg) ==
    LET gW == Seq1([n \in 1..(NumInputs * NumClasses) |->
                 LET d == ((n - 1) \div NumClasses) + 1
                     j == ((n - 1) % NumClasses) + 1
                 IN  FAdd(FSum([k \in 1..Len(X) |-> FMul(X[k][d], dz[k][j])]),
                          PenaltyGrad(nd[W].data[n], reg))])
        gb == Seq1([j \in 1..NumClasses |->
                 FAdd(FSum([k \in 1..Len(X) |-> dz[k][j]]),
                      PenaltyGrad(nd[b].data[j], reg))])
    IN  [n \in {W, b} |-> IF n = W THEN NDArray(nd[W].shape, gW)
                          ELSE NDArray(nd[b].shape, gb)]

Backward(X, output, y, nd, reg) ==
    ParamGrads(X, Seq1([k \in 1..Len(X) |-> LogitGrad(output[k], y[k])]),
               nd, reg)

\* SGDUpdate that leaves the array alone when a gradient is not finite.
SGDUpdateGuarded(param, g, rate) ==
    IF \E k \in 1..Len(g.data) : ~IsFinite(g.data[k])
    THEN param
    ELSE [param EXCEPT !.data =
            [k \in 1..Len(param.data) |->
                FSub(param.data[k], FScale(g.data[k], rate[1], rate[2]))]]

\* param[:] = param - lr * param.grad, for one array, in place.
SGDUpdate(param, g, rate) ==
    [param EXCEPT !.data =
        [k \in 1..Len(param.data) |->
            FSub(param.data[k], FScale(g.data[k], rate[1], rate[2]))]]

\* SGD that returns after the first array of the list.
SGDFirstOnly(ps, rate, nd, grads) ==
    IF ps = <<>> THEN nd
    ELSE [nd EXCEPT ![Head(ps)] = SGDUpdate(@, grads[Head(ps)], rate)]

RECURSIVE SGD(_, _, _, _)
\* SGD(params, lr): for param in params, the in-place update above, with
\* the gradient buffers as loss.backward() left them.
SGD(ps, rate, nd, grads) ==
    IF ps = <<>> THEN nd
    ELSE SGD(Tail(ps), rate,
             [nd EXCEPT ![Head(ps)] = SGDUpdate(@, grads[Head(ps)], rate)],
             grads)

\* MovingLoss without the restart at the first batch of an epoch.
MovingLossNoReset(i, moving_loss, mean) ==
    FAdd(FScale(moving_loss, 99, 100), FScale(mean, 1, 100))

\* The moving average of the losses kept by both training cells.
MovingLoss(i, moving_loss, mean) ==
    IF i = 0 THEN mean
    ELSE FAdd(FScale(moving_loss, 99, 100), FScale(mean, 1, 100))

(***************************************************************************)
(* evaluate_accuracy                                                       *)
(***************************************************************************)

\* nd.sum(predictions == label) for one batch.
Correct(batch, nd, nanIdx) ==
    Cardinality({k \in 1..Len(batch.data) :
        Argmax(Softmax(Linear(batch.data[k], nd)), nanIdx) = batch.label[k]}) * FIX

RECURSIVE EvalLoopOverwrite(_, _, _, _, _)
\* EvalLoop with "numerator =" for "numerator +=".
EvalLoopOverwrite(it, nd, nanIdx, numerator, denominator) ==
    IF ~HasBatch(Advance(it))
    THEN [it |-> Advance(it), numerator |-> numerator,
          denominator |-> denominator]
    ELSE EvalLoopOverwrite(Advance(it), nd, nanIdx,
                  Correct(GetBatch(Advance(it)), nd, nanIdx),
                  FAdd(denominator, Len(BatchRows(Advance(it))) * FIX))

RECURSIVE EvalLoop(_, _, _, _, _)
\* for i, batch in enumerate(data_iterator): ... ; the iterator is left
\* where the failing next() put it.
EvalLoop(it, nd, nanIdx, numerator, denominator) ==
    IF ~HasBatch(Advance(it))
    THEN [it |-> Advance(it), numerator |-> numerator,
          denominator |-> denominator]
    ELSE EvalLoop(Advance(it), nd, nanIdx,
                  FAdd(numerator, Correct(GetBatch(Advance(it)), nd, nanIdx)),
                  FAdd(denominator, Len(BatchRows(Advance(it))) * FIX))

\* evaluate_accuracy(data_iterator, net): the value returned, the iterator
\* as it is left, and the two locals as they stand at the return.
Returned(r) ==
    [value |-> FDiv(r.numerator, r.denominator),
     it |-> r.it,
     numerator |-> r.numerator,
     denominator |-> r.denominator]

evaluate_accuracy(data_iterator, nd, nanIdx) ==
    Returned(EvalLoop(Reset(data_iterator), nd, nanIdx, 0, 0))

(***************************************************************************)
(* mx.random: seeded once, mx.random.seed(1), so every nd.random_normal    *)
(* draws the next values of one fixed stream.  Which stream the seed       *)
(* gives is not known here: it is one of these.                            *)
(***************************************************************************)
Streams ==
    { << 1024, -512, -1024, 512,   256, -256,
         -512, 1024, 512, -1024,   0, 512 >>,
      << 0, 0, 0, 0,   0, 0,
         0, 0, 0, 0,   0, 0 >>,
      << 6144, -6144, -6144, 6144,   0, 0,
         512, 512, -512, -512,   -256, 256 >> }

\* The generator: its stream and how many values have been drawn.
Seeded(stream) == [stream |-> stream, drawn |-> 0]

\* nd.random_normal(shape=...): the array drawn and the generator after.
random_normal(shape, gen) ==
    [value |-> NDArray(shape,
                       SubSeq(gen.stream, gen.drawn + 1, gen.drawn + Size(shape))),
     rest  |-> [gen EXCEPT !.drawn = @ + Size(shape)]]

(***************************************************************************)
(* State                                                                   *)
(***************************************************************************)
VARIABLES
    pc,             \* the statement the script is at
    e,              \* epochs of the current loop that are over
    i,              \* the enumerate() index of the next training batch
    rng,            \* the mx.random generator
    nan_argmax,     \* what this build's argmax answers on a NaN row
    ndarray,        \* the arrays W and b, by name
    grad,           \* their attached gradient buffers
    train_data,     \* the two NDArrayIter objects
    test_data,
    moving_loss,
    test_accuracy,
    train_accuracy,
    numerator,      \* the locals of evaluate_accuracy at its last return
    denominator,
    evals,          \* history: evaluate_accuracy calls since the epoch began
    twin            \* a second execution of the script, run in step with this
                    \* one (SpecPair), or NoTwin

vars == <<pc, e, i, rng, nan_argmax, ndarray, grad, train_data, test_data,
          moving_loss, test_accuracy, train_accuracy, numerator, denominator,
          evals, twin>>

NoTwin == [on |-> FALSE]

\* The data of one execution: what the statements below read and write.
Cur ==
    [on |-> TRUE, ndarray |-> ndarray, grad |-> grad,
     train_data |-> train_data, test_data |-> test_data,
     moving_loss |-> moving_loss, test_accuracy |-> test_accuracy,
     train_accuracy |-> train_accuracy,
     numerator |-> numerator, denominator |-> denominator]

\* The state of one execution after the cells up to evaluate_accuracy's
\* definition: W and b drawn, gradient buffers attached, both iterators
\* constructed over the first num_examples of their partition.
Construct(stream, train_idx, test_idx) ==
    LET w  == random_normal(<<NumInputs, NumClasses>>, Seeded(stream))
        bb == random_normal(<<NumClasses>>, w.rest)
    IN  [on |-> TRUE,
         ndarray |-> [n \in {W, b} |-> IF n = W THEN w.value ELSE bb.value],
         grad |-> [n \in {W, b} |-> IF n = W THEN Zeros(<<NumInputs, NumClasses>>)
                                    ELSE Zeros(<<NumClasses>>)],
         train_data |-> NDArrayIter(Prefix(mnist.train_data, num_examples),
                                    Prefix(mnist.train_label, num_examples),
                                    train_idx),
         test_data |-> NDArrayIter(Prefix(mnist.test_data, num_examples),
                                   Prefix(mnist.test_label, num_examples),
                                   test_idx),
         moving_loss |-> Unbound, test_accuracy |-> Unbound,
         train_accuracy |-> Unbound,
         numerator |-> Unbound, denominator |-> Unbound]

\* The generator after the draws of W and b.
AfterConstruct(stream) ==
    [stream |-> stream, drawn |-> NumInputs * NumClasses + NumClasses]

InitCommon(stream) ==
    /\ pc = "run1"
    /\ e = 0
    /\ i = 0
    /\ rng = AfterConstruct(stream)
    /\ nan_argmax \in 0..(NumClasses - 1)
    /\ evals = [test |-> 0, train |-> 0]

InitExec(x) ==
    /\ ndarray = x.ndarray
    /\ grad = x.grad
    /\ train_data = x.train_data
    /\ test_data = x.test_data
    /\ moving_loss = x.moving_loss
    /\ test_accuracy = x.test_accuracy
    /\ train_accuracy = x.train_accuracy
    /\ numerator = x.numerator
    /\ denominator = x.denominator

Init ==
    \E stream \in Streams, train_idx, test_idx \in Shuffles(num_examples) :
        /\ InitCommon(stream)
        /\ InitExec(Construct(stream, train_idx, test_idx))
        /\ twin = NoTwin

(***************************************************************************)
(* The statements, on the data of one execution                            *)
(***************************************************************************)

\* epochs = 1000; moving_loss = 0.  (and l2_strength = .1 in the second cell)
BeginRun(x) == [x EXCEPT !.moving_loss = 0]

\* train_data.reset() at the top of an epoch.
BeginEpoch(x) == [x EXCEPT !.train_data = Reset(@)]

\* One pass through the body of "for i, batch in enumerate(train_data)":
\* next(), the forward pass, the loss, loss.backward(), SGD(params, .001)
\* and the moving average.  reg: the regularized cell.
Update(x, reg, idx, loss, g) ==
    [x EXCEPT !.train_data = Advance(@),
              !.grad = g,
              !.ndarray = SGD(params, lr, @, g),
              !.moving_loss = MovingLoss(idx, @, Mean(loss))]

Forward(x, reg, idx, data, label_one_hot, output) ==
    Update(x, reg, idx,
           IF reg THEN Loss2(output, label_one_hot, x.ndarray)
           ELSE Loss1(output, label_one_hot),
           Backward(data, output, label_one_hot, x.ndarray, reg))

Body(x, reg, idx, batch) ==
    Forward(x, reg, idx, batch.data, one_hot(batch.label),
            net(batch.data, x.ndarray))

TrainStep(x, reg, idx) == Body(x, reg, idx, GetBatch(Advance(x.train_data)))

\* The training loop's last next() finds nothing, and
\* test_accuracy = evaluate_accuracy(test_data, net).
TestReturn(x, r) ==
    [x EXCEPT !.train_data = Advance(@),
              !.test_data = r.it,
              !.test_accuracy = r.value,
              !.numerator = r.numerator,
              !.denominator = r.denominator]

\* TestAccuracy that also applies an SGD step with the gradients at hand.
TestAccuracyTraining(x, nanIdx) ==
    [TestReturn(x, evaluate_accuracy(x.test_data, x.ndarray, nanIdx))
        EXCEPT !.ndarray = SGD(params, lr, @, x.grad)]

TestAccuracy(x, nanIdx) ==
    TestReturn(x, evaluate_accuracy(x.test_data, x.ndarray, nanIdx))

\* train_accuracy = evaluate_accuracy(train_data, net).
TrainReturn(x, r) ==
    [x EXCEPT !.train_data = r.it,
              !.train_accuracy = r.value,
              !.numerator = r.numerator,
              !.denominator = r.denominator]

TrainAccuracy(x, nanIdx) ==
    TrainReturn(x, evaluate_accuracy(x.train_data, x.ndarray, nanIdx))

RECURSIVE ReinitLoop(_, _, _)
ReinitLoop(ps, nd, gen) ==
    IF ps = <<>> THEN [ndarray |-> nd, rest |-> gen]
    ELSE ReinitLoop(Tail(ps),
            [nd EXCEPT ![Head(ps)].data =
                random_normal(nd[Head(ps)].shape, gen).value.data],
            random_normal(nd[Head(ps)].shape, gen).rest)

\* Reinitialize with "param = ..." for "param[:] = ...": the loop variable
\* is rebound and the arrays stay as they were.
ReinitializeRebind(x, gen) == x

\* for param in params: param[:] = nd.random_normal(shape=param.shape)
Reinitialize(x, gen) ==
    [x EXCEPT !.ndarray = ReinitLoop(params, @, gen).ndarray]

(***************************************************************************)
(* The script                                                              *)
(***************************************************************************)

\* The statement Op done by this execution and, in step, by its twin.
Do(Op(_)) ==
    \E r \in {Op(Cur)} :
        /\ ndarray' = r.ndarray
        /\ grad' = r.grad
        /\ train_data' = r.train_data
        /\ test_data' = r.test_data
        /\ moving_loss' = r.moving_loss
        /\ test_accuracy' = r.test_accuracy
        /\ train_accuracy' = r.train_accuracy
        /\ numerator' = r.numerator
        /\ denominator' = r.denominator
        /\ twin' = IF twin.on THEN Op(twin) ELSE twin

Skip(x) == x

NoEval == [test |-> 0, train |-> 0]

\* The unregularized cell.
Start1 ==
    /\ pc = "run1"
    /\ Do(BeginRun)
    /\ pc' = "epoch1"
    /\ e' = 0
    /\ UNCHANGED <<i, rng, nan_argmax, evals>>

Epoch1 ==
    /\ pc = "epoch1"
    /\ e < epochs
    /\ Do(BeginEpoch)
    /\ pc' = "batch1"
    /\ i' = 0
    /\ evals' = NoEval
    /\ UNCHANGED <<e, rng, nan_argmax>>

Batch1 ==
    /\ pc = "batch1"
    /\ HasBatch(Advance(train_data))
    /\ Do(LAMBDA x : TrainStep(x, FALSE, i))
    /\ i' = i + 1
    /\ UNCHANGED <<pc, e, rng, nan_argmax, evals>>

\* TestAcc1 without waiting for the training loop to run out.
TestAcc1Early ==
    /\ pc = "batch1"
    /\ Do(LAMBDA x : TestAccuracy(x, nan_argmax))
    /\ pc' = "train_acc1"
    /\ evals' = [evals EXCEPT !.test = @ + 1]
    /\ UNCHANGED <<e, i, rng, nan_argmax>>

TestAcc1 ==
    /\ pc = "batch1"
    /\ ~HasBatch(Advance(train_data))
    /\ Do(LAMBDA x : TestAccuracy(x, nan_argmax))
    /\ pc' = "train_acc1"
    /\ evals' = [evals EXCEPT !.test = @ + 1]
    /\ UNCHANGED <<e, i, rng, nan_argmax>>

\* The second evaluation ends the epoch (the print every 100th epoch
\* changes nothing the script reads).
TrainAcc1 ==
    /\ pc = "train_acc1"
    /\ Do(LAMBDA x : TrainAccuracy(x, nan_argmax))
    /\ pc' = "epoch1"
    /\ e' = e + 1
    /\ evals' = [evals EXCEPT !.train = @ + 1]
    /\ UNCHANGED <<i, rng, nan_argmax>>

Exit1 ==
    /\ pc = "epoch1"
    /\ e >= epochs
    /\ Do(Skip)
    /\ pc' = "reinit"
    /\ UNCHANGED <<e, i, rng, nan_argmax, evals>>

\* Re-initializing the parameters.
Reinit ==
    /\ pc = "reinit"
    /\ Do(LAMBDA x : Reinitialize(x, rng))
    /\ rng' = ReinitLoop(params, ndarray, rng).rest
    /\ pc' = "run2"
    /\ UNCHANGED <<e, i, nan_argmax, evals>>

\* The L2-regularized cell.
Start2 ==
    /\ pc = "run2"
    /\ Do(BeginRun)
    /\ pc' = "epoch2"
    /\ e' = 0
    /\ UNCHANGED <<i, rng, nan_argmax, evals>>

\* Epoch2 with "e <= epochs" for "e < epochs".
Epoch2OneMore ==
    /\ pc = "epoch2"
    /\ e <= epochs
    /\ Do(BeginEpoch)
    /\ pc' = "batch2"
    /\ i' = 0
    /\ evals' = NoEval
    /\ UNCHANGED <<e, rng, nan_argmax>>

Epoch2 ==
    /\ pc = "epoch2"
    /\ e < epochs
    /\ Do(BeginEpoch)
    /\ pc' = "batch2"
    /\ i' = 0
    /\ evals' = NoEval
    /\ UNCHANGED <<e, rng, nan_argmax>>

Batch2 ==
    /\ pc = "batch2"
    /\ HasBatch(Advance(train_data))
    /\ Do(LAMBDA x : TrainStep(x, TRUE, i))
    /\ i' = i + 1
    /\ UNCHANGED <<pc, e, rng, nan_argmax, evals>>

TestAcc2 ==
    /\ pc = "batch2"
    /\ ~HasBatch(Advance(train_data))
    /\ Do(LAMBDA x : TestAccuracy(x, nan_argmax))
    /\ pc' = "train_acc2"
    /\ evals' = [evals EXCEPT !.test = @ + 1]
    /\ UNCHANGED <<e, i, rng, nan_argmax>>

TrainAcc2 ==
    /\ pc = "train_acc2"
    /\ Do(LAMBDA x : TrainAccuracy(x, nan_argmax))
    /\ pc' = "epoch2"
    /\ e' = e + 1
    /\ evals' = [evals EXCEPT !.train = @ + 1]
    /\ UNCHANGED <<i, rng, nan_argmax>>

Exit2 ==
    /\ pc = "epoch2"
    /\ e >= epochs
    /\ Do(Skip)
    /\ pc' = "done"
    /\ UNCHANGED <<e, i, rng, nan_argmax, evals>>

Next ==
    \/ Start1 \/ Epoch1 \/ Batch1 \/ TestAcc1 \/ TrainAcc1 \/ Exit1
    \/ Reinit
    \/ Start2 \/ Epoch2 \/ Batch2 \/ TestAcc2 \/ TrainAcc2 \/ Exit2

Spec == Init /\ [][Next]_vars

\* Where control goes from each statement of the script: the loop tests
\* and the order of the cells, without what the statements compute.
Control ==
    \/ pc = "run1" /\ pc' = "epoch1" /\ i' = i
    \/ pc = "epoch1" /\ e < epochs /\ pc' = "batch1" /\ i' = 0
    \/ pc = "epoch1" /\ e >= epochs /\ pc' = "reinit" /\ i' = i
    \/ pc = "batch1" /\ HasBatch(Advance(train_data)) /\ pc' = pc /\ i' = i + 1
    \/ pc = "batch1" /\ ~HasBatch(Advance(train_data))
          /\ pc' = "train_acc1" /\ i' = i
    \/ pc = "train_acc1" /\ pc' = "epoch1" /\ i' = i
    \/ pc = "reinit" /\ pc' = "run2" /\ i' = i
    \/ pc = "run2" /\ pc' = "epoch2" /\ i' = i
    \/ pc = "epoch2" /\ e < epochs /\ pc' = "batch2" /\ i' = 0
    \/ pc = "epoch2" /\ e >= epochs /\ pc' = "done" /\ i' = i
    \/ pc = "batch2" /\ HasBatch(Advance(train_data)) /\ pc' = pc /\ i' = i + 1
    \/ pc = "batch2" /\ ~HasBatch(Advance(train_data))
          /\ pc' = "train_acc2" /\ i' = i
    \/ pc = "train_acc2" /\ pc' = "epoch2" /\ i' = i

\* The script is one thread that the interpreter runs to its end: control
\* does not rest before a statement that can be executed.
FairSpec == Spec /\ WF_<<pc, i>>(Control)

\* Two executions of the script: the same mx.random seed, hence the same
\* stream, and the same build; each with its own np.random.shuffle orders,
\* which mx.random.seed does not reach.
InitPair ==
    \E stream \in Streams,
       train_idx, test_idx, train_idx2, test_idx2 \in Shuffles(num_examples) :
        /\ InitCommon(stream)
        /\ InitExec(Construct(stream, train_idx, test_idx))
        /\ twin = Construct(stream, train_idx2, test_idx2)

SpecPair == InitPair /\ [][Next]_vars

(***************************************************************************)
(* Properties                                                              *)
(***************************************************************************)

\* The batches of one pass over a partition.
NumBatches == (num_examples + batch_size - 1) \div batch_size

\* The cursors a pass over the iterator stops at.
PassCursors(it) ==
    {c \in 0..(num_data(it) - 1) : c % batch_size = 0}

\* The positions of the partition in the batch at cursor c.
RowsAt(it, c) == BatchRows([it EXCEPT !.cursor = c])

\* The rows of a pass: batch cursor and place in the batch.
Presented(it) ==
    UNION {{<<c, k>> : k \in 1..Len(RowsAt(it, c))} : c \in PassCursors(it)}

\* How often position p of the partition is presented in a pass.
Times(it, p) ==
    Cardinality({r \in Presented(it) : RowsAt(it, r[1])[r[2]] = p})

\* The rows of a pass whose argmax prediction is their label.
Hits(it, nd) ==
    Cardinality({r \in Presented(it) :
        Argmax(Softmax(Linear(it.data[RowsAt(it, r[1])[r[2]]], nd)), nan_argmax)
            = it.label[RowsAt(it, r[1])[r[2]]]})

AfterTestAcc == pc \in {"train_acc1", "train_acc2"}
AfterTrainAcc == pc \in {"epoch1", "epoch2"} /\ e > 0

\* What evaluate_accuracy has to have returned for the pass over it.
CountedRight(it, accuracy) ==
    /\ numerator = Hits(it, ndarray) * FIX
    /\ denominator = Cardinality(Presented(it)) * FIX
    /\ accuracy = FDiv(Hits(it, ndarray) * FIX, Cardinality(Presented(it)) * FIX)
    /\ numerator <= denominator
    /\ 0 <= accuracy /\ accuracy <= FIX

\* C1: evaluate_accuracy returns the number of rows whose argmax prediction
\* equals their label divided by the number of rows of all the batches it
\* iterated, a value in [0,1]: for the test partition as it stands when the
\* call has returned, and for the training partition likewise.
C1_AccuracyIsHitsOverRows ==
    /\ AfterTestAcc => CountedRight(test_data, test_accuracy)
    /\ AfterTrainAcc => CountedRight(train_data, train_accuracy)

\* C1: a call has returned a fraction strictly between 0 and 1.
C1_Witness ==
    /\ AfterTestAcc
    /\ 0 < numerator /\ numerator < denominator
    /\ test_accuracy = FDiv(numerator, denominator)

\* C2: a pass over a partition presents every sample exactly once, so the
\* denominator evaluate_accuracy accumulates is the number of samples of the
\* partition.
C2_EverySampleOncePerPass ==
    denominator # Unbound =>
        /\ denominator = num_examples * FIX
        /\ \A p \in 1..num_examples :
              Times(train_data, p) = 1 /\ Times(test_data, p) = 1

\* A step that is a call of evaluate_accuracy.
IsEval == evals'.test + evals'.train = evals.test + evals.train + 1

\* C3: a call of evaluate_accuracy leaves W, b, their gradient buffers and
\* moving_loss as they were.
C3_EvaluationReadsOnly ==
    [][IsEval => /\ ndarray' = ndarray
                 /\ grad' = grad
                 /\ moving_loss' = moving_loss]_vars

\* C3: an evaluation has run on parameters that training has moved.
C3_Witness ==
    /\ AfterTestAcc
    /\ evals.test = 1
    /\ \E n \in {W, b} : \E k \in 1..Len(grad[n].data) : grad[n].data[k] # 0

\* A run has done all its epochs.
Completed == pc \in {"epoch1", "epoch2", "done"} /\ e = epochs

\* C4: each run ends: its loop comes to its end after exactly epochs
\* epochs of at most NumBatches batches each, the script reaches its end,
\* and once a run has done its epochs neither leaving its loop nor anything
\* after the end of the script changes the parameters.
C4_RunsTerminate ==
    /\ <>(pc = "reinit")
    /\ <>(pc = "done")
    /\ [](pc \in {"reinit", "done"} => e = epochs)
    /\ [](i <= NumBatches /\ e <= epochs)
    /\ [][Completed => ndarray' = ndarray]_vars

\* C4: the end of the script, both runs over.
C4_Witness ==
    /\ pc = "done"
    /\ e = epochs
    /\ rng.drawn = 2 * (NumInputs * NumClasses + NumClasses)

\* C5: two executions with the same seed report the same moving loss and
\* the same accuracies at every point.
C5_SameSeedSameResults ==
    twin.on =>
        /\ twin.moving_loss = moving_loss
        /\ twin.test_accuracy = test_accuracy
        /\ twin.train_accuracy = train_accuracy

\* Every element of every parameter array.
Elements(nd) == nd[W].data \o nd[b].data

RECURSIVE SumOfSquares(_)
SumOfSquares(s) ==
    IF Len(s) = 0 THEN 0 ELSE Head(s) * Head(s) + SumOfSquares(Tail(s))

IsBatch == i' = i + 1
ThisBatch == GetBatch(Advance(train_data))

\* The mean over the rows of the batch of their cross-entropy loss, at the
\* parameters nd.
MeanPerSample(batch, nd) ==
    Mean(cross_entropy(net(batch.data, nd), one_hot(batch.label)))

\* The regularized objective of the batch at the parameters nd: the summed
\* cross-entropy plus l2_strength times the sum of the squares.
Objective(batch, nd) ==
    FAdd(FSum(cross_entropy(net(batch.data, nd), one_hot(batch.label))),
         FScale(ToFix(SumOfSquares(Elements(nd))), 1, 10))

\* moving_loss after a batch whose reported loss is m.
Averaged(m) ==
    /\ i = 0 => moving_loss' = m
    /\ i > 0 => moving_loss' = FAdd(FScale(moving_loss, 99, 100), FScale(m, 1, 100))

\* C7 as stated: in both runs the first batch of an epoch sets moving_loss
\* to the batch's mean per-sample loss and a later batch makes it
\* 0.99 * moving_loss + 0.01 * that mean.
C7_MovingLossOfMeanPerSample ==
    [][IsBatch => Averaged(MeanPerSample(ThisBatch, ndarray))]_vars

\* C7 amended: so in the unregularized run; in the regularized run the
\* value averaged is the batch's summed cross-entropy plus 0.1 times
\* l2_penalty(params), at the parameters before the batch's update.
C7_MovingLossOfReportedLoss ==
    [][IsBatch =>
        /\ pc = "batch1" => Averaged(MeanPerSample(ThisBatch, ndarray))
        /\ pc = "batch2" => Averaged(Objective(ThisBatch, ndarray))]_vars

\* C7: the regularized run is past the first batch of its second epoch,
\* with a finite moving loss that is not 0.
C7_Witness ==
    /\ pc = "batch2"
    /\ e = 1
    /\ i = 1
    /\ IsFinite(moving_loss)
    /\ moving_loss > 0

\* The array named n after one update with the gradients g.
Stepped(n, g) ==
    [k \in 1..Len(ndarray[n].data) |->
        FSub(ndarray[n].data[k], FScale(g[n].data[k], 1, 1000))]

\* The gradients of the batch's loss at the parameters as they are.
GradientsNow(reg) ==
    Backward(ThisBatch.data, net(ThisBatch.data, ndarray),
             one_hot(ThisBatch.label), ndarray, reg)

\* C8: a batch moves every element of W and of b once, to its value before
\* the batch minus 0.001 times its gradient, all gradients taken at the
\* values before the batch; shapes stay; and the parameters change in no
\* other step than a batch or the re-initialisation.
C8_OneSGDStepPerBatch ==
    [][/\ IsBatch =>
            \A n \in {W, b} :
                /\ ndarray'[n].data = Stepped(n, GradientsNow(pc = "batch2"))
                /\ ndarray'[n].shape = ndarray[n].shape
                /\ grad'[n] = GradientsNow(pc = "batch2")[n]
       /\ ndarray' # ndarray => IsBatch \/ pc = "reinit"]_vars

\* C8: a batch has moved both W and b.
C8_Witness ==
    /\ pc = "batch1"
    /\ i = 1
    /\ \E k \in 1..Len(grad[W].data) :
          IsFinite(grad[W].data[k]) /\ FScale(grad[W].data[k], 1, 1000) # 0
    /\ \E k \in 1..Len(grad[b].data) :
          IsFinite(grad[b].data[k]) /\ FScale(grad[b].data[k], 1, 1000) # 0

\* C9: within an epoch no evaluation happens while batches are processed;
\* the test evaluation comes once, when all NumBatches batches are done, the
\* training evaluation once after it, and when the epoch is over both
\* accuracies are those of the parameters as the last batch left them.
C9_EvaluationsAfterTheBatches ==
    /\ pc \in {"batch1", "batch2"} => evals = NoEval /\ i <= NumBatches
    /\ AfterTestAcc =>
          /\ evals = [test |-> 1, train |-> 0]
          /\ i = NumBatches
          /\ ~HasBatch(train_data)
    /\ AfterTrainAcc =>
          /\ evals = [test |-> 1, train |-> 1]
          /\ i = NumBatches
          /\ test_accuracy = FDiv(Hits(test_data, ndarray) * FIX,
                                  Cardinality(Presented(test_data)) * FIX)
          /\ train_accuracy = FDiv(Hits(train_data, ndarray) * FIX,
                                   Cardinality(Presented(train_data)) * FIX)

\* C9: the second epoch of the regularized run is over, both evaluated.
C9_Witness ==
    /\ pc = "epoch2"
    /\ e = 2
    /\ evals = [test |-> 1, train |-> 1]

\* The values the generator gives from its n-th on, count of them.
Drawn(n, count) == SubSeq(rng.stream, n + 1, n + count)

FirstBatchOfRun2 == pc = "batch2" /\ e = 0 /\ i = 0

\* C10: at the first batch of the regularized run W and b hold the values
\* the generator gave after those of the construction, whatever the first
\* run left, in arrays of the shapes they had, and moving_loss is 0.
C10_RegularizedRunStartsFresh ==
    FirstBatchOfRun2 =>
        /\ ndarray[W] = NDArray(<<NumInputs, NumClasses>>,
                Drawn(NumInputs * NumClasses + NumClasses,
                      NumInputs * NumClasses))
        /\ ndarray[b] = NDArray(<<NumClasses>>,
                Drawn(2 * NumInputs * NumClasses + NumClasses, NumClasses))
        /\ moving_loss = 0

\* C10: the regularized run starts from values that differ from those the
\* script began with.
C10_Witness ==
    /\ FirstBatchOfRun2
    /\ ndarray[W].data # Drawn(0, NumInputs * NumClasses)
    /\ IsFinite(ndarray[W].data[1])

NonFinite(s) == \E k \in 1..Len(s) : ~IsFinite(s[k])
AllNaN(s) == \A k \in 1..Len(s) : IsNaN(s[k])

\* Some element of W or b is NaN or infinite.
Diverged == NonFinite(Elements(ndarray))

\* Inside the loops of one of the two training cells.
Running == pc \in {"epoch1", "batch1", "train_acc1",
                   "epoch2", "batch2", "train_acc2"}

\* A batch step in which a value that is not finite shows: in the
\* parameters before it, or in the loss, a gradient or a parameter after it.
Diverges ==
    /\ IsBatch
    /\ \/ Diverged
       \/ ~IsFinite(moving_loss')
       \/ NonFinite(Elements(grad'))
       \/ NonFinite(Elements(ndarray'))

\* C11: a NaN or infinity is never caught.  A batch in which one shows in
\* the loss, a gradient or a parameter still takes its SGD step and leaves
\* every gradient and every parameter NaN and the moving loss not finite,
\* NaN once the parameters were; no later step of the run brings a finite
\* parameter back; every epoch that follows still processes all NumBatches
\* batches; and the run goes on to the end of its loop, all epochs done,
\* with the parameters NaN.
C11_DivergenceRunsOn ==
    /\ [][Diverges =>
            /\ AllNaN(Elements(ndarray'))
            /\ AllNaN(Elements(grad'))
            /\ ~IsFinite(moving_loss')
            /\ Diverged => IsNaN(moving_loss')]_vars
    /\ [][Diverged /\ Running => Diverged' /\ AllNaN(Elements(ndarray'))]_vars
    /\ [](Diverged /\ AfterTestAcc => i = NumBatches /\ ~IsFinite(moving_loss))
    /\ (Diverged /\ Running) ~>
            (AllNaN(Elements(ndarray)) /\ ~Running /\ e = epochs)

\* C11: the unregularized run is over, all its epochs done, with NaN
\* parameters and a NaN moving loss.
C11_Witness ==
    /\ pc = "reinit"
    /\ e = epochs
    /\ AllNaN(Elements(ndarray))
    /\ IsNaN(moving_loss)

====
